---- MODULE Spec2Model ----
(***************************************************************************)
(* Bridge Optimization Simulator (src/OptRoute.py): a Dash page with four  *)
(* coordinate inputs and a slider, and one callback, update_graph, that    *)
(* recomputes the figure and the distance text on every input change.      *)
(*                                                                         *)
(* Numbers.  The program computes in binary floating point.  Here every    *)
(* position (a coordinate, a bridge position) is an integer number of      *)
(* 1/Q km and every distance an integer number of 1/(Q*R) km: with         *)
(* Q = R = 1000, positions are in metres and distances in millimetres.     *)
(* Square roots, products and quotients are rounded down to the resolution *)
(* of their result.                                                        *)
(***************************************************************************)
EXTENDS Integers, Sequences, FiniteSets

Q == 10^3
R == 10^3
F == Q * R

Abs(v) == IF v < 0 THEN -v ELSE v
Max(u, v) == IF u >= v THEN u ELSE v

\* np.sign
Sign(v) == IF v > 0 THEN 1 ELSE IF v < 0 THEN -1 ELSE 0

(***************************************************************************)
(* np.sqrt.  ISqrt(n) is floor(sqrt(n)) by Newton's iteration from a first *)
(* guess between the root and twice the root, which six steps bring down   *)
(* to the floor for every n below 2^31.  Sqrt(n), for a radicand in        *)
(* (1/Q km)^2, is floor(R * sqrt(n)): three more decimal digits of the     *)
(* root, each the largest k with (20 r + k) k <= 100 rem.                  *)
(***************************************************************************)
SqrtGuess(n) ==
    IF n < 4^8
    THEN (IF n < 4^4
          THEN (IF n < 4^2 THEN (IF n < 4^1 THEN 2^1 ELSE 2^2)
                           ELSE (IF n < 4^3 THEN 2^3 ELSE 2^4))
          ELSE (IF n < 4^6 THEN (IF n < 4^5 THEN 2^5 ELSE 2^6)
                           ELSE (IF n < 4^7 THEN 2^7 ELSE 2^8)))
    ELSE (IF n < 4^12
          THEN (IF n < 4^10 THEN (IF n < 4^9 THEN 2^9 ELSE 2^10)
                            ELSE (IF n < 4^11 THEN 2^11 ELSE 2^12))
          ELSE (IF n < 4^14 THEN (IF n < 4^13 THEN 2^13 ELSE 2^14)
                            ELSE (IF n < 4^15 THEN 2^15 ELSE 2^16)))

NewtonStep(n, g) == LET h == (g + n \div g) \div 2 IN IF h < g THEN h ELSE g

ISqrt(n) ==
    IF n = 0 THEN 0
    ELSE NewtonStep(n, NewtonStep(n, NewtonStep(n,
         NewtonStep(n, NewtonStep(n, NewtonStep(n, SqrtGuess(n)))))))

SqrtDigit(r, c) ==
    IF r < 5
    THEN CHOOSE k \in 0..9 :
             /\ (20 * r + k) * k <= c
             /\ (k = 9 \/ (20 * r + k + 1) * (k + 1) > c)
    ELSE LET est == c \div (20 * r)
             k == IF est > 9 THEN 9 ELSE est
         IN  IF (20 * r + k) * k <= c THEN k ELSE k - 1

\* One more decimal digit of the root t[1] with remainder t[2].
SqrtNext(t) ==
    LET c == t[2] * 100
        d == SqrtDigit(t[1], c)
    IN  <<10 * t[1] + d, c - (20 * t[1] + d) * d>>

Sqrt(n) ==
    LET s == ISqrt(n)
    IN  SqrtNext(SqrtNext(SqrtNext(<<s, n - s * s>>)))[1]

\* A position times a value, in the value's unit: floor(x * v / Q).
Mul(x, v) == (v \div Q) * x + ((v % Q) * x) \div Q

\* One more decimal digit of a quotient t[1] with remainder t[2].
DivNext(t, q) == <<10 * t[1] + (10 * t[2]) \div q, (10 * t[2]) % q>>

\* The quotient of two values as a position: floor(Q * p / q), q > 0.
Div(p, q) == DivNext(DivNext(DivNext(<<p \div q, p % q>>, q), q), q)[1]

(***************************************************************************)
(* Module-level values (lines 12-15), in km.                               *)
(***************************************************************************)
default_A_x == 0
default_A_y == -3
default_B_x == 6
default_B_y == 6
river_width == 1

\* Kilometres as a position.
Km(k) == k * Q

(***************************************************************************)
(* calculate_distance (lines 18-23).                                       *)
(***************************************************************************)
bridge_y1 == 0
bridge_y2 == Km(river_width)

\* The radicands of lines 20 and 21.
\* A's leg measured between A_x and -bridge_x.
SqDistA_sign_slip(bridge_x, A_x, A_y) ==
    (A_x + bridge_x) * (A_x + bridge_x) + (A_y - bridge_y1) * (A_y - bridge_y1)

\* A's leg measured to the far bank.
SqDistA_far_bank(bridge_x, A_x, A_y) ==
    (A_x - bridge_x) * (A_x - bridge_x) + (A_y - bridge_y2) * (A_y - bridge_y2)

SqDistA(bridge_x, A_x, A_y) ==
    (A_x - bridge_x) * (A_x - bridge_x) + (A_y - bridge_y1) * (A_y - bridge_y1)
\* B's leg measured to the near bank: the river's width left out.
SqDistB_near_bank(bridge_x, B_x, B_y) ==
    (B_x - bridge_x) * (B_x - bridge_x) + (B_y - bridge_y1) * (B_y - bridge_y1)

SqDistB(bridge_x, B_x, B_y) ==
    (B_x - bridge_x) * (B_x - bridge_x) + (B_y - bridge_y2) * (B_y - bridge_y2)

\* The total without the bridge's own length.
calculate_distance_without_bridge(bridge_x, A_x, A_y, B_x, B_y) ==
    Sqrt(SqDistA(bridge_x, A_x, A_y)) + Sqrt(SqDistB(bridge_x, B_x, B_y))

calculate_distance(bridge_x, A_x, A_y, B_x, B_y) ==
    Sqrt(SqDistA(bridge_x, A_x, A_y)) + river_width * F + Sqrt(SqDistB(bridge_x, B_x, B_y))

(***************************************************************************)
(* generate_distance_curve (lines 26-29).  np.linspace(0, 6, 500): sample  *)
(* i is start + i * (stop - start) / (num - 1), rounded to the nearest     *)
(* position, and the last sample is stop.                                  *)
(***************************************************************************)
linspace_start == 0
linspace_stop == 6
linspace_num == 500

\* np.linspace(0, 6, 500, endpoint=False)
linspace_without_endpoint ==
    [i \in 1..linspace_num |->
        Km(linspace_start)
        + (2 * (i - 1) * (Km(linspace_stop) - Km(linspace_start)) + linspace_num)
          \div (2 * linspace_num)]

linspace ==
    [i \in 1..linspace_num |->
        IF i = linspace_num THEN Km(linspace_stop)
        ELSE Km(linspace_start)
             + (2 * (i - 1) * (Km(linspace_stop) - Km(linspace_start)) + (linspace_num - 1))
               \div (2 * (linspace_num - 1))]

generate_distance_curve(A_x, A_y, B_x, B_y) ==
    [x_vals |-> linspace,
     y_vals |-> [i \in DOMAIN linspace |->
                    calculate_distance(linspace[i], A_x, A_y, B_x, B_y)]]

(***************************************************************************)
(* minimize_scalar(calculate_distance, bounds=(0, 6), args=(A_x, A_y, B_x, *)
(* B_y), method='bounded') (line 84): the library's bounded Brent search   *)
(* (golden-section steps with parabolic interpolation) with its default    *)
(* options.  The defaults xatol = 1e-5 km and sqrt_eps = 1.5e-8 are below  *)
(* the position resolution: xatol is the smallest value that gives the     *)
(* search a step of one position (tol1 = xatol / 3), sqrt_eps rounds to 0. *)
(***************************************************************************)
bounds_lo == 0
bounds_hi == 6
xatol == 3
maxiter == 500
sqrt_eps == 0
\* 0.5 * (3.0 - sqrt(5.0)) = 0.38197
golden_num == 38197
golden_den == 10^5

golden_mean(e) == (golden_num * e) \div golden_den

tol1_of(xf) == Mul(Abs(xf), sqrt_eps) + xatol \div 3

\* The loop's test with the half width added instead of subtracted.
BrentContinues_sign_slip(s) ==
    LET xm == (s.a + s.b) \div 2
        tol2 == 2 * tol1_of(s.xf)
    IN  Abs(s.xf - xm) > tol2 + (s.b - s.a) \div 2 /\ s.num < maxiter

\* while np.abs(xf - xm) > (tol2 - 0.5 * (b - a)), and num < maxfun
BrentContinues(s) ==
    LET xm == (s.a + s.b) \div 2
        tol2 == 2 * tol1_of(s.xf)
    IN  Abs(s.xf - xm) > tol2 - (s.b - s.a) \div 2 /\ s.num < maxiter

\* The parabola through (xf, fx), (nfc, fnfc), (fulc, ffulc): p and q before
\* the sign of q is moved to p.
BrentFit(s) ==
    LET r == Mul(s.xf - s.nfc, s.fx - s.ffulc)
        q == Mul(s.xf - s.fulc, s.fx - s.fnfc)
    IN  [p |-> Mul(s.xf - s.fulc, q) - Mul(s.xf - s.nfc, r), q |-> 2 * (q - r)]

\* The step rat and the step before it, e: a parabolic step when the
\* parabola fits, or else a golden-section step.
BrentTrial(s, fit) ==
    LET tol1 == tol1_of(s.xf)
        tol2 == 2 * tol1
        xm == (s.a + s.b) \div 2
        p == IF fit.q > 0 THEN -fit.p ELSE fit.p
        q == Abs(fit.q)
        r == s.e
        fits == /\ Abs(s.e) > tol1
                /\ Abs(p) < Abs(Mul(r, q) \div 2)
                /\ p > Mul(s.a - s.xf, q)
                /\ p < Mul(s.b - s.xf, q)
        x == s.xf + Div(p, q)
        golden_e == IF s.xf >= xm THEN s.a - s.xf ELSE s.b - s.xf
    IN  IF fits
        THEN [e |-> s.rat,
              rat |-> IF (x - s.a) < tol2 \/ (s.b - x) < tol2
                      THEN tol1 * (Sign(xm - s.xf) + (IF xm - s.xf = 0 THEN 1 ELSE 0))
                      ELSE Div(p, q)]
        ELSE [e |-> golden_e, rat |-> golden_mean(golden_e)]

\* x = xf + si * np.maximum(np.abs(rat), tol1)
BrentPoint(s, t) ==
    s.xf + (Sign(t.rat) + (IF t.rat = 0 THEN 1 ELSE 0)) * Max(Abs(t.rat), tol1_of(s.xf))

\* The loop's variables after the function's value fu at x is known.
BrentUpdate(s, t, x, fu) ==
    IF fu <= s.fx
    THEN [a |-> IF x >= s.xf THEN s.xf ELSE s.a,
          b |-> IF x >= s.xf THEN s.b ELSE s.xf,
          fulc |-> s.nfc, ffulc |-> s.fnfc,
          nfc |-> s.xf, fnfc |-> s.fx,
          xf |-> x, fx |-> fu,
          rat |-> t.rat, e |-> t.e, num |-> s.num + 1]
    ELSE LET second == fu <= s.fnfc \/ s.nfc = s.xf
             third == ~second /\ (fu <= s.ffulc \/ s.fulc = s.xf \/ s.fulc = s.nfc)
         IN  [a |-> IF x < s.xf THEN x ELSE s.a,
              b |-> IF x < s.xf THEN s.b ELSE x,
              fulc |-> IF second THEN s.nfc ELSE IF third THEN x ELSE s.fulc,
              ffulc |-> IF second THEN s.fnfc ELSE IF third THEN fu ELSE s.ffulc,
              nfc |-> IF second THEN x ELSE s.nfc,
              fnfc |-> IF second THEN fu ELSE s.fnfc,
              xf |-> s.xf, fx |-> s.fx,
              rat |-> t.rat, e |-> t.e, num |-> s.num + 1]

\* fu = func(x, *args)
BrentEval(s, t, x, A_x, A_y, B_x, B_y) ==
    BrentUpdate(s, t, x, calculate_distance(x, A_x, A_y, B_x, B_y))

BrentMove(s, t, A_x, A_y, B_x, B_y) ==
    BrentEval(s, t, BrentPoint(s, t), A_x, A_y, B_x, B_y)

\* One pass of the loop; s is the record of the loop's variables.
BrentStep(s, A_x, A_y, B_x, B_y) ==
    BrentMove(s, BrentTrial(s, BrentFit(s)), A_x, A_y, B_x, B_y)

RECURSIVE BrentLoop(_, _, _, _, _)
BrentLoop(s, A_x, A_y, B_x, B_y) ==
    IF BrentContinues(s)
    THEN BrentLoop(BrentStep(s, A_x, A_y, B_x, B_y), A_x, A_y, B_x, B_y)
    ELSE s

\* The loop's variables before the first pass: the first point is the
\* golden-section point of the interval, with the function's value fx there.
BrentStart(a, b, fulc, fx) ==
    [a |-> a, b |-> b, fulc |-> fulc, ffulc |-> fx, nfc |-> fulc, fnfc |-> fx,
     xf |-> fulc, fx |-> fx, rat |-> 0, e |-> 0, num |-> 1]

BrentFirst(a, b, fulc, A_x, A_y, B_x, B_y) ==
    BrentStart(a, b, fulc, calculate_distance(fulc, A_x, A_y, B_x, B_y))

\* The result with the second best value for fun.
OptimizeResult_second_best(s) ==
    [x |-> s.xf, fun |-> s.fnfc, nfev |-> s.num, success |-> s.num < maxiter]

\* OptimizeResult(x=xf, fun=fx, nfev=num, success=(flag == 0))
OptimizeResult(s) ==
    [x |-> s.xf, fun |-> s.fx, nfev |-> s.num, success |-> s.num < maxiter]

minimize_scalar_bounded(A_x, A_y, B_x, B_y) ==
    OptimizeResult(
        BrentLoop(BrentFirst(Km(bounds_lo), Km(bounds_hi),
                             Km(bounds_lo) + golden_mean(Km(bounds_hi) - Km(bounds_lo)),
                             A_x, A_y, B_x, B_y),
                  A_x, A_y, B_x, B_y))

(***************************************************************************)
(* The page (lines 32-61).  Each input component holds the value the       *)
(* browser last sent: a JSON number, None for an emptied number field, or  *)
(* a string.  A string is the sequence of its characters.                  *)
(***************************************************************************)
Number(v) == [kind |-> "number", val |-> v, text |-> <<>>]
None == [kind |-> "None", val |-> 0, text |-> <<>>]
Str(chars) == [kind |-> "str", val |-> 0, text |-> chars]

slider_min == 0
slider_max == 6
slider_value == 3
\* step=0.01
slider_step == Q \div 100

\* The number of slider positions the model moves the slider to.
SliderStops == 6

slider_values ==
    {Km(slider_min)
       + slider_step * ((j * ((Km(slider_max) - Km(slider_min)) \div slider_step))
                        \div SliderStops) : j \in 0..SliderStops}

\* The values the model types into the four coordinate fields.
A_x_values == {Number(Km(default_A_x)), Number(Km(-4)), Number(Km(10)),
               None, Str(<<"a", "b", "c">>)}
A_y_values == {Number(Km(default_A_y)), Number(Km(0)), Str(<<"a", "b", "c">>)}
B_x_values == {Number(Km(default_B_x)), Number(Km(-6)), Number(Km(12)),
               Str(<<"6", ".", "0">>)}
B_y_values == {Number(Km(default_B_y)), Number(Km(river_width)), None}

(***************************************************************************)
(* float(v) (lines 76-79).  A number converts to itself, None raises       *)
(* TypeError, and a string is parsed: an optional sign, then digits with   *)
(* at most one decimal point and at least one digit; any other string      *)
(* raises ValueError.  Digits beyond the position resolution are dropped.  *)
(***************************************************************************)
Digits == <<"0", "1", "2", "3", "4", "5", "6", "7", "8", "9">>
IsDigit(ch) == \E d \in DOMAIN Digits : Digits[d] = ch
DigitVal(ch) == (CHOOSE d \in DOMAIN Digits : Digits[d] = ch) - 1

RECURSIVE DecimalVal(_)
DecimalVal(chars) ==
    IF chars = <<>> THEN 0
    ELSE 10 * DecimalVal(SubSeq(chars, 1, Len(chars) - 1)) + DigitVal(chars[Len(chars)])

\* The first three digits of a fraction, as thousandths.
FractionVal(chars) ==
    DecimalVal(SubSeq(chars \o <<"0", "0", "0">>, 1, 3)) * (Q \div 10^3)

ParseFloat(chars) ==
    LET signed == chars # <<>> /\ Head(chars) \in {"+", "-"}
        body == IF signed THEN Tail(chars) ELSE chars
        dots == {i \in DOMAIN body : body[i] = "."}
        wellformed == /\ \A i \in DOMAIN body : body[i] = "." \/ IsDigit(body[i])
                      /\ Cardinality(dots) <= 1
                      /\ \E i \in DOMAIN body : IsDigit(body[i])
        dot == IF dots = {} THEN Len(body) + 1 ELSE CHOOSE i \in dots : TRUE
        magnitude == Q * DecimalVal(SubSeq(body, 1, dot - 1))
                     + FractionVal(SubSeq(body, dot + 1, Len(body)))
    IN  IF wellformed
        THEN [ok |-> TRUE, val |-> IF Head(chars) = "-" THEN -magnitude ELSE magnitude,
              error |-> ""]
        ELSE [ok |-> FALSE, val |-> 0, error |-> "ValueError"]

float(v) ==
    CASE v.kind = "number" -> [ok |-> TRUE, val |-> v.val, error |-> ""]
      [] v.kind = "str" -> ParseFloat(v.text)
      [] OTHER -> [ok |-> FALSE, val |-> 0, error |-> "TypeError"]

(***************************************************************************)
(* f"{v:.4f}": a value rounded to four decimals, as the number of 1e-4 km. *)
(***************************************************************************)
Fmt4(v) == (v + F \div (2 * 10^4)) \div (F \div 10^4)
Fmt4Position(x) == Fmt4(x * R)

(***************************************************************************)
(* The state: the values of the five input components, and the outcome of  *)
(* the latest call of the callback.  Dash calls update_graph once when the *)
(* page loads and again whenever an input's value changes.  When the call  *)
(* raises, Dash leaves the two output components as they were; out then    *)
(* records the exception.  The program keeps nothing else between calls.   *)
(*                                                                         *)
(* kept is a history variable, which no action reads: the inputs and the   *)
(* outcome of one earlier call, and the number of calls since (counted up  *)
(* to MaxSince).                                                           *)
(***************************************************************************)
VARIABLES out, bridge_slider, input_A_x, input_A_y, input_B_x, input_B_y, kept

vars == <<out, bridge_slider, input_A_x, input_A_y, input_B_x, input_B_y, kept>>

inputs == <<bridge_slider, input_A_x, input_A_y, input_B_x, input_B_y>>

(***************************************************************************)
(* update_graph (lines 73-142).  The optimum and the curve depend on the   *)
(* converted coordinates only: they are tabulated once for the coordinate  *)
(* tuples the fields can hold.                                             *)
(***************************************************************************)
Floats(values) == {float(v).val : v \in {u \in values : float(u).ok}}

Coordinates ==
    {<<A_x, A_y, B_x, B_y>> : A_x \in Floats(A_x_values), A_y \in Floats(A_y_values),
                              B_x \in Floats(B_x_values), B_y \in Floats(B_y_values)}

\* line 84
result_table == [t \in Coordinates |-> minimize_scalar_bounded(t[1], t[2], t[3], t[4])]
result(A_x, A_y, B_x, B_y) == result_table[<<A_x, A_y, B_x, B_y>>]

\* line 89
curve_table == [t \in Coordinates |-> generate_distance_curve(t[1], t[2], t[3], t[4])]
curve(A_x, A_y, B_x, B_y) == curve_table[<<A_x, A_y, B_x, B_y>>]

\* lines 93 and 94
dist_A_to_bridge(bridge_x, A_x, A_y) ==
    Sqrt((A_x - bridge_x) * (A_x - bridge_x) + (A_y - 0) * (A_y - 0))
dist_bridge_to_B(bridge_x, B_x, B_y) ==
    Sqrt((B_x - bridge_x) * (B_x - bridge_x)
         + (B_y - Km(river_width)) * (B_y - Km(river_width)))

\* go.Scatter(x=..., y=..., name=..., text=...)
Scatter(name, x, y, text) == [name |-> name, x |-> x, y |-> y, text |-> text]

\* go.Figure() (line 81)
EmptyFigure == [data |-> <<>>]

\* lines 97-127: the figure's traces, in the order they are added
Figure(bridge_x, A_x, A_y, B_x, B_y, optimum_bridge_x, x_vals, y_vals) ==
    [data |-> <<
        Scatter("City A", <<A_x>>, <<A_y>>, <<>>),
        Scatter("City B", <<B_x>>, <<B_y>>, <<>>),
        Scatter("Bridge (Draggable)", <<bridge_x, bridge_x>>,
                <<0, Km(river_width)>>, <<>>),
        Scatter("Path A to Bridge", <<A_x, bridge_x>>, <<A_y, 0>>, <<>>),
        Scatter("Path Bridge to B", <<bridge_x, B_x>>, <<Km(river_width), B_y>>, <<>>),
        Scatter("Optimum Bridge Position", <<optimum_bridge_x, optimum_bridge_x>>,
                <<0, Km(river_width)>>, <<>>),
        Scatter("", <<optimum_bridge_x>>, <<Km(river_width)>>,
                <<"Optimum: ", Fmt4Position(optimum_bridge_x), " km">>),
        Scatter("Distance Curve", x_vals, y_vals, <<>>)>>]

\* lines 138-141: the text, as its four formatted numbers
distance_text(total_distance, optimum_distance, dist_A, dist_B) ==
    [message |-> "Current Distance: {:.4f} km | Optimum Distance: {:.4f} km | A to Bridge: {:.4f} km | Bridge to B: {:.4f} km",
     values |-> <<Fmt4(total_distance), Fmt4(optimum_distance),
                  Fmt4(dist_A), Fmt4(dist_B)>>]

\* line 81
invalid_text ==
    [message |-> "Invalid coordinates. Please input valid numbers for cities A and B.",
     values |-> <<>>]

Returned(figure, children) ==
    [status |-> "returned", error |-> "", figure |-> figure, children |-> children]

\* The callback ends with an exception: it returns nothing.
Raised(error) ==
    [status |-> "raised", error |-> error, figure |-> EmptyFigure,
     children |-> [message |-> "", values |-> <<>>]]

\* The optimum position of the figure shown before, kept for the next figure.
render_stale(bridge_x, A_x, A_y, B_x, B_y) ==
    LET res == result(A_x, A_y, B_x, B_y)
        optimum_bridge_x == IF out.figure # EmptyFigure
                            THEN out.figure.data[6].x[1]
                            ELSE res.x
        xy == curve(A_x, A_y, B_x, B_y)
    IN  Returned(Figure(bridge_x, A_x, A_y, B_x, B_y, optimum_bridge_x,
                        xy.x_vals, xy.y_vals),
                 distance_text(calculate_distance(bridge_x, A_x, A_y, B_x, B_y),
                               res.fun,
                               dist_A_to_bridge(bridge_x, A_x, A_y),
                               dist_bridge_to_B(bridge_x, B_x, B_y)))

\* The slider's position taken for the optimum when its total is smaller.
render_best_seen(bridge_x, A_x, A_y, B_x, B_y) ==
    LET res == result(A_x, A_y, B_x, B_y)
        total_distance == calculate_distance(bridge_x, A_x, A_y, B_x, B_y)
        better == total_distance < res.fun
        xy == curve(A_x, A_y, B_x, B_y)
    IN  Returned(Figure(bridge_x, A_x, A_y, B_x, B_y,
                        IF better THEN bridge_x ELSE res.x,
                        xy.x_vals, xy.y_vals),
                 distance_text(total_distance,
                               IF better THEN total_distance ELSE res.fun,
                               dist_A_to_bridge(bridge_x, A_x, A_y),
                               dist_bridge_to_B(bridge_x, B_x, B_y)))

\* lines 83-142, with the coordinates converted
render(bridge_x, A_x, A_y, B_x, B_y) ==
    LET res == result(A_x, A_y, B_x, B_y)
        optimum_bridge_x == res.x
        optimum_distance == res.fun
        xy == curve(A_x, A_y, B_x, B_y)
        total_distance == calculate_distance(bridge_x, A_x, A_y, B_x, B_y)
    IN  Returned(Figure(bridge_x, A_x, A_y, B_x, B_y, optimum_bridge_x,
                        xy.x_vals, xy.y_vals),
                 distance_text(total_distance, optimum_distance,
                               dist_A_to_bridge(bridge_x, A_x, A_y),
                               dist_bridge_to_B(bridge_x, B_x, B_y)))

\* The conversions run in order: the first one that fails ends the try block.
update_graph(bridge_x, A_x, A_y, B_x, B_y) ==
    LET conv == <<float(A_x), float(A_y), float(B_x), float(B_y)>>
        failed == {i \in DOMAIN conv : ~conv[i].ok}
        first == CHOOSE i \in failed : \A j \in failed : i <= j
    IN  IF failed = {}
        THEN render(bridge_x, conv[1].val, conv[2].val, conv[3].val, conv[4].val)
        ELSE IF conv[first].error = "ValueError"
             THEN Returned(EmptyFigure, invalid_text)
             ELSE Raised(conv[first].error)

(***************************************************************************)
(* The callback's events (lines 64-73).                                    *)
(***************************************************************************)
Pending == [status |-> "pending", error |-> "", figure |-> EmptyFigure,
            children |-> [message |-> "", values |-> <<>>]]

MaxSince == 2

NothingKept == [taken |-> FALSE, inputs |-> <<>>, out |-> Pending, since |-> 0]

\* The history variable after one more call.
Later == IF kept.taken /\ kept.since < MaxSince
         THEN [kept EXCEPT !.since = @ + 1]
         ELSE kept

Init ==
    /\ bridge_slider = Km(slider_value)
    /\ input_A_x = Number(Km(default_A_x))
    /\ input_A_y = Number(Km(default_A_y))
    /\ input_B_x = Number(Km(default_B_x))
    /\ input_B_y = Number(Km(default_B_y))
    /\ out = Pending
    /\ kept = NothingKept

PageLoad ==
    /\ out.status = "pending"
    /\ out' = update_graph(bridge_slider, input_A_x, input_A_y, input_B_x, input_B_y)
    /\ kept' = Later
    /\ UNCHANGED <<bridge_slider, input_A_x, input_A_y, input_B_x, input_B_y>>

SliderMoveTo(values) ==
    /\ out.status # "pending"
    /\ \E v \in values \ {bridge_slider} :
          /\ bridge_slider' = v
          /\ out' = update_graph(v, input_A_x, input_A_y, input_B_x, input_B_y)
    /\ kept' = Later
    /\ UNCHANGED <<input_A_x, input_A_y, input_B_x, input_B_y>>

EditA_xTo(values) ==
    /\ out.status # "pending"
    /\ \E v \in values \ {input_A_x} :
          /\ input_A_x' = v
          /\ out' = update_graph(bridge_slider, v, input_A_y, input_B_x, input_B_y)
    /\ kept' = Later
    /\ UNCHANGED <<bridge_slider, input_A_y, input_B_x, input_B_y>>

EditA_yTo(values) ==
    /\ out.status # "pending"
    /\ \E v \in values \ {input_A_y} :
          /\ input_A_y' = v
          /\ out' = update_graph(bridge_slider, input_A_x, v, input_B_x, input_B_y)
    /\ kept' = Later
    /\ UNCHANGED <<bridge_slider, input_A_x, input_B_x, input_B_y>>

EditB_xTo(values) ==
    /\ out.status # "pending"
    /\ \E v \in values \ {input_B_x} :
          /\ input_B_x' = v
          /\ out' = update_graph(bridge_slider, input_A_x, input_A_y, v, input_B_y)
    /\ kept' = Later
    /\ UNCHANGED <<bridge_slider, input_A_x, input_A_y, input_B_y>>

EditB_yTo(values) ==
    /\ out.status # "pending"
    /\ \E v \in values \ {input_B_y} :
          /\ input_B_y' = v
          /\ out' = update_graph(bridge_slider, input_A_x, input_A_y, input_B_x, v)
    /\ kept' = Later
    /\ UNCHANGED <<bridge_slider, input_A_x, input_A_y, input_B_x>>

SliderMove == SliderMoveTo(slider_values)
EditA_x == EditA_xTo(A_x_values)
EditA_y == EditA_yTo(A_y_values)
EditB_x == EditB_xTo(B_x_values)
EditB_y == EditB_yTo(B_y_values)

Next == PageLoad \/ SliderMove \/ EditA_x \/ EditA_y \/ EditB_x \/ EditB_y

Spec == Init /\ [][Next]_vars

(***************************************************************************)
(* The same events with the history variable in use, over fewer values:    *)
(* Remember keeps the inputs and the outcome of the latest call.           *)
(***************************************************************************)
Remember ==
    /\ out.status # "pending"
    /\ ~kept.taken
    /\ kept' = [taken |-> TRUE, inputs |-> inputs, out |-> out, since |-> 0]
    /\ UNCHANGED <<out, bridge_slider, input_A_x, input_A_y, input_B_x, input_B_y>>

history_slider_values == {Km(slider_min), Km(slider_value)}
history_A_x_values == {Number(Km(default_A_x)), Number(Km(-4)), None}
history_A_y_values == {Number(Km(default_A_y)), Str(<<"a", "b", "c">>)}
history_B_x_values == {Number(Km(default_B_x)), Number(Km(-6))}
history_B_y_values == {Number(Km(default_B_y)), None}

SliderMoveHistory == SliderMoveTo(history_slider_values)
EditA_xHistory == EditA_xTo(history_A_x_values)
EditA_yHistory == EditA_yTo(history_A_y_values)
EditB_xHistory == EditB_xTo(history_B_x_values)
EditB_yHistory == EditB_yTo(history_B_y_values)

NextHistory ==
    \/ PageLoad \/ Remember
    \/ SliderMoveHistory \/ EditA_xHistory \/ EditA_yHistory
    \/ EditB_xHistory \/ EditB_yHistory

SpecHistory == Init /\ [][NextHistory]_vars

(***************************************************************************)
(* What the claims read off a state.                                       *)
(***************************************************************************)
\* All four coordinate fields hold values that float() converts.
Valid ==
    float(input_A_x).ok /\ float(input_A_y).ok /\ float(input_B_x).ok /\ float(input_B_y).ok

\* The latest call returned a computed figure.
Rendered == out.status = "returned" /\ out.figure # EmptyFigure

A_x_now == float(input_A_x).val
A_y_now == float(input_A_y).val
B_x_now == float(input_B_x).val
B_y_now == float(input_B_y).val

coordinates_now == <<A_x_now, A_y_now, B_x_now, B_y_now>>

\* total at x for the coordinates c.
total_of(x, c) == calculate_distance(x, c[1], c[2], c[3], c[4])

total(x) == total_of(x, coordinates_now)

\* The figure's optimum marker and curve, and the four numbers of the text.
shown_optimum_x == out.figure.data[6].x[1]
shown_optimum_label == out.figure.data[7].text[2]
shown_curve == out.figure.data[8]
shown_current == out.children.values[1]
shown_optimum == out.children.values[2]
shown_A_to_bridge == out.children.values[3]
shown_bridge_to_B == out.children.values[4]

AtDefaults ==
    /\ Valid
    /\ A_x_now = Km(default_A_x) /\ A_y_now = Km(default_A_y)
    /\ B_x_now = Km(default_B_x) /\ B_y_now = Km(default_B_y)

\* Every position of [0, 6] the slider can take.
slider_positions ==
    {slider_step * k : k \in (Km(slider_min) \div slider_step)..(Km(slider_max) \div slider_step)}

\* The integer part of a square root, checked without computing a root.
IsRootOf(d, n) == (d \div R) * (d \div R) <= n /\ n < (d \div R + 1) * (d \div R + 1)

\* The identity of the total and its legs at x for the coordinates c.
LegsAt(x, c) ==
    /\ total_of(x, c) = dist_A_to_bridge(x, c[1], c[2])
                        + river_width * F
                        + dist_bridge_to_B(x, c[3], c[4])
    /\ total_of(x, c) >= river_width * F
    /\ IsRootOf(dist_A_to_bridge(x, c[1], c[2]),
                (c[1] - x) * (c[1] - x) + c[2] * c[2])
    /\ IsRootOf(dist_bridge_to_B(x, c[3], c[4]),
                (c[3] - x) * (c[3] - x)
                + (c[4] - Km(river_width)) * (c[4] - Km(river_width)))

(***************************************************************************)
(* C1.  calculate_distance returns the two legs' sum plus the river width, *)
(* each leg the square root of its radicand, and the total is at least the *)
(* river width, at every slider position.  The legs update_graph computes  *)
(* again for the current slider value satisfy the identity with the        *)
(* current total exactly; the three four-decimal figures of the text are   *)
(* these values rounded, so that the displayed legs plus the river width   *)
(* differ from the displayed total by at most 0.0001 km.                   *)
(***************************************************************************)
C1_TotalIsLegsPlusRiver ==
    Rendered =>
        /\ LET c == coordinates_now
           IN  \A x \in slider_positions \cup {bridge_slider} : LegsAt(x, c)
        /\ shown_current = Fmt4(total(bridge_slider))
        /\ shown_A_to_bridge = Fmt4(dist_A_to_bridge(bridge_slider, A_x_now, A_y_now))
        /\ shown_bridge_to_B = Fmt4(dist_bridge_to_B(bridge_slider, B_x_now, B_y_now))
        /\ Abs(shown_current
               - (shown_A_to_bridge + Fmt4(river_width * F) + shown_bridge_to_B)) <= 1

\* The default cities with the bridge at 1 km: 3.1623 + 1 + 7.0711 is shown
\* next to a total of 11.2333.
C1_Witness ==
    /\ Rendered /\ AtDefaults /\ bridge_slider = Km(1)
    /\ shown_current + 1 = shown_A_to_bridge + Fmt4(river_width * F) + shown_bridge_to_B

\* C1 as stated: the displayed legs and the displayed total satisfy the
\* identity.
C1_DisplayedIdentity ==
    Rendered =>
        shown_current = shown_A_to_bridge + Fmt4(river_width * F) + shown_bridge_to_B

(***************************************************************************)
(* The optimizer's result for the state's coordinates, and the tolerance   *)
(* of its value: the search ends within 2 * tol1 of a minimizer or of a    *)
(* bound, and total changes by at most two distance units per position     *)
(* unit, one for each leg.                                                 *)
(***************************************************************************)
result_now == result(A_x_now, A_y_now, B_x_now, B_y_now)

FunTol == 2 * (2 * tol1_of(0)) * R

\* The positions of [0, 6] within one slider step of x.
Near(x) ==
    {y \in (x - slider_step)..(x + slider_step) : Km(bounds_lo) <= y /\ y <= Km(bounds_hi)}

(***************************************************************************)
(* C2.  Whenever the four coordinates convert, degenerate or not, the      *)
(* callback returns a figure, and the optimizer's pair satisfies: the      *)
(* search succeeded; optimum_bridge_x is strictly inside (0, 6);           *)
(* optimum_distance is total at optimum_bridge_x; and no position of       *)
(* [0, 6] (every slider position, every position within 0.01 km of the     *)
(* optimum) has a total below optimum_distance by more than the tolerance. *)
(***************************************************************************)
C2_OptimumWithinTolerance ==
    /\ (Valid /\ out.status # "pending") => Rendered
    /\ Rendered =>
          /\ result_now.success
          /\ shown_optimum_x = result_now.x
          /\ shown_optimum = Fmt4(result_now.fun)
          /\ Km(bounds_lo) < result_now.x /\ result_now.x < Km(bounds_hi)
          /\ result_now.fun = total(result_now.x)
          /\ LET c == coordinates_now
                 fun == result_now.fun
             IN  \A x \in slider_positions \cup Near(result_now.x) :
                    fun <= total_of(x, c) + FunTol

\* Both cities on their banks: total is constant between them.
C2_Witness ==
    /\ Rendered /\ A_y_now = bridge_y1 /\ B_y_now = bridge_y2
    /\ A_x_now # B_x_now /\ result_now.fun = total(Km(bounds_lo))

\* C2 as stated: no position of [0, 6] has a smaller total than the
\* optimum's.
C2_ExactMinimum ==
    Rendered =>
        /\ Km(bounds_lo) <= result_now.x /\ result_now.x <= Km(bounds_hi)
        /\ result_now.fun = total(result_now.x)
        /\ LET c == coordinates_now
               fun == result_now.fun
           IN  \A x \in slider_positions \cup Near(result_now.x) :
                  fun <= total_of(x, c)

(***************************************************************************)
(* Where total is least over the whole line.  With p = |A_y - 0| and       *)
(* q = |B_y - w| the two legs' slopes cancel at (A_x q + B_x p) / (p + q); *)
(* with p = q = 0 total is least everywhere between A_x and B_x.           *)
(***************************************************************************)
p_now == Abs(A_y_now - bridge_y1)
q_now == Abs(B_y_now - bridge_y2)

MinimizerBelow ==
    IF p_now + q_now = 0
    THEN Max(A_x_now, B_x_now) < Km(bounds_lo)
    ELSE A_x_now * q_now + B_x_now * p_now < Km(bounds_lo) * (p_now + q_now)

MinimizerAbove ==
    IF p_now + q_now = 0
    THEN -Max(-A_x_now, -B_x_now) > Km(bounds_hi)
    ELSE A_x_now * q_now + B_x_now * p_now > Km(bounds_hi) * (p_now + q_now)

(***************************************************************************)
(* C3.  When the minimizer over the line lies outside [0, 6], the          *)
(* optimizer returns a position strictly inside the interval and within    *)
(* xatol of the nearest bound, and reports total at that position, which   *)
(* is within the tolerance above total at the bound.                       *)
(***************************************************************************)
C3_ReturnsNearBound ==
    Rendered =>
        /\ MinimizerBelow =>
              /\ Km(bounds_lo) < shown_optimum_x
              /\ shown_optimum_x <= Km(bounds_lo) + xatol
              /\ result_now.fun = total(shown_optimum_x)
              /\ total(Km(bounds_lo)) <= result_now.fun
              /\ result_now.fun <= total(Km(bounds_lo)) + FunTol
        /\ MinimizerAbove =>
              /\ Km(bounds_hi) - xatol <= shown_optimum_x
              /\ shown_optimum_x < Km(bounds_hi)
              /\ result_now.fun = total(shown_optimum_x)
              /\ total(Km(bounds_hi)) <= result_now.fun
              /\ result_now.fun <= total(Km(bounds_hi)) + FunTol

\* Both cities west of the interval.
C3_Witness ==
    /\ Rendered /\ MinimizerBelow
    /\ A_x_now < Km(bounds_lo) /\ B_x_now < Km(bounds_lo)
    /\ shown_optimum > Fmt4(total(Km(bounds_lo)))

\* C3 as stated: the optimizer returns the bound and total at the bound.
C3_ReturnsBound ==
    Rendered =>
        /\ MinimizerBelow =>
              /\ shown_optimum_x = Km(bounds_lo)
              /\ shown_optimum = Fmt4(total(Km(bounds_lo)))
        /\ MinimizerAbove =>
              /\ shown_optimum_x = Km(bounds_hi)
              /\ shown_optimum = Fmt4(total(Km(bounds_hi)))

(***************************************************************************)
(* C6.  For the default cities the minimizer is 18/8 = 2.25 km, where      *)
(* total is sqrt(6^2 + 8^2) + 1 = 11 km: the optimizer returns a position  *)
(* within xatol of 2.25 km, and the text shows an optimum of 11.0000 km.   *)
(***************************************************************************)
C6_DefaultOptimum ==
    (Rendered /\ AtDefaults) =>
        /\ Abs(shown_optimum_x - (9 * Q) \div 4) <= xatol
        /\ shown_optimum_label = Fmt4Position(shown_optimum_x)
        /\ shown_optimum = Fmt4(11 * F)

C6_Witness ==
    Rendered /\ AtDefaults /\ bridge_slider = Km(slider_value) /\ result_now.nfev > 1

\* C6 as stated: the optimum position is 2.0 km, to the digit given.
C6_OptimumNearTwo ==
    (Rendered /\ AtDefaults) => Abs(shown_optimum_x - Km(2)) <= Q \div 20

(***************************************************************************)
(* C4.  Whenever a coordinate field holds a value float() does not         *)
(* convert, the callback returns the empty figure and the message.         *)
(***************************************************************************)
C4_InvalidInputIsReported ==
    (out.status # "pending" /\ ~Valid) =>
        /\ out.status = "returned"
        /\ out.figure = EmptyFigure
        /\ out.children = invalid_text

GridReach == 8

GridUnit == Q \div 4

XGrid ==
    {GridUnit * k : k \in (4 * (bounds_lo - GridReach))..(4 * (bounds_hi + GridReach))}

sa_now(x) == SqDistA(x, A_x_now, A_y_now) \div (GridUnit * GridUnit)
sb_now(x) == SqDistB(x, B_x_now, B_y_now) \div (GridUnit * GridUnit)
c_now ==
    ((A_x_now - B_x_now) * (A_x_now - B_x_now) + (p_now + q_now) * (p_now + q_now))
    \div (GridUnit * GridUnit)

Attains(x) ==
    /\ c_now - sa_now(x) - sb_now(x) >= 0
    /\ 4 * sa_now(x) * sb_now(x)
       = (c_now - sa_now(x) - sb_now(x)) * (c_now - sa_now(x) - sb_now(x))

NotBelow(x) ==
    \/ c_now - sa_now(x) - sb_now(x) <= 0
    \/ 4 * sa_now(x) * sb_now(x)
       >= (c_now - sa_now(x) - sb_now(x)) * (c_now - sa_now(x) - sb_now(x))

OnBanks == p_now = 0 /\ q_now = 0 /\ A_x_now # B_x_now

Minimizers == {x \in XGrid : Attains(x)}

(***************************************************************************)
(* C7.  total has exactly one minimizer over the line unless both cities   *)
(* lie on their banks (A_y = 0 and B_y = w) at different x: then every     *)
(* position between A_x and B_x attains the minimum |A_x - B_x| + w, and   *)
(* calculate_distance returns that value at each of them.  On the grid: no *)
(* position is below the minimum; off the banks at most one position       *)
(* attains it, and for the default cities 2.25 km does.                    *)
(***************************************************************************)
C7_UniqueUnlessOnBanks ==
    Rendered =>
        /\ \A x \in XGrid : NotBelow(x)
        /\ ~OnBanks => Cardinality(Minimizers) <= 1
        /\ AtDefaults => Minimizers = {(9 * Q) \div 4}
        /\ OnBanks =>
              /\ Minimizers = {x \in XGrid : /\ x >= -Max(-A_x_now, -B_x_now)
                                             /\ x <= Max(A_x_now, B_x_now)}
              /\ \A x \in Minimizers :
                    total(x) = Abs(A_x_now - B_x_now) * R + river_width * F

C7_Witness ==
    Rendered /\ ~OnBanks /\ Cardinality(Minimizers) = 1 /\ ~AtDefaults

\* C7 as stated: no two distinct positions attain the minimum.
C7_NoTwoMinimizers ==
    Rendered =>
        \A x1 \in Minimizers : \A x2 \in Minimizers : total(x1) = total(x2) => x1 = x2

\* The coordinates c after the half turn: the cities swapped.
HalfTurn(c) ==
    <<Km(bounds_hi) - c[3], Km(river_width) - c[4],
      Km(bounds_hi) - c[1], Km(river_width) - c[2]>>

(***************************************************************************)
(* C8.  total is unchanged when the picture is turned half a turn about    *)
(* the middle of the river over [0, 6], which swaps the cities and the     *)
(* banks: calculate_distance(6 - x, 6 - B_x, w - B_y, 6 - A_x, w - A_y)    *)
(* = calculate_distance(x, A_x, A_y, B_x, B_y) at every slider position.   *)
(***************************************************************************)
C8_HalfTurn ==
    Rendered =>
        LET c == coordinates_now
            turned == HalfTurn(coordinates_now)
        IN  \A x \in slider_positions \cup {bridge_slider} :
                total_of(Km(bounds_hi) - x, turned) = total_of(x, c)

C8_Witness ==
    /\ Rendered /\ bridge_slider # Km(bounds_hi) - bridge_slider
    /\ A_x_now # Km(bounds_hi) - B_x_now
    /\ total_of(Km(bounds_hi) - bridge_slider, HalfTurn(coordinates_now))
       = total(bridge_slider)

\* C8 as stated: the cities swapped and x reflected, the y values unchanged.
C8_ReflectionAsStated ==
    Rendered =>
        \A x \in slider_values \cup {bridge_slider} :
            calculate_distance(Km(bounds_hi) - x, Km(bounds_hi) - B_x_now, B_y_now,
                               Km(bounds_hi) - A_x_now, A_y_now)
            = total(x)

(***************************************************************************)
(* C9.  The figure's curve has 500 samples; the first x is 0 and the last  *)
(* is 6; sample i is at (i - 1) * 6 / 499 rounded to the nearest position; *)
(* every y is calculate_distance at its x for the coordinates the          *)
(* optimizer was given; and no sample lies below the optimum distance by   *)
(* more than the tolerance.                                                *)
(***************************************************************************)
C9_CurveSamples ==
    Rendered =>
        /\ DOMAIN shown_curve.x = 1..linspace_num
        /\ DOMAIN shown_curve.y = 1..linspace_num
        /\ shown_curve.x[1] = Km(linspace_start)
        /\ shown_curve.x[linspace_num] = Km(linspace_stop)
        /\ shown_optimum = Fmt4(result_now.fun)
        /\ LET c == coordinates_now
               fun == result_now.fun
               xs == shown_curve.x
               ys == shown_curve.y
           IN  \A i \in 1..linspace_num :
                  /\ 2 * Abs(xs[i] * (linspace_num - 1)
                             - (i - 1) * (Km(linspace_stop) - Km(linspace_start)))
                     <= linspace_num - 1
                  /\ ys[i] = total_of(xs[i], c)
                  /\ fun <= ys[i] + FunTol

\* The curve's first sample lies below the optimum distance.
C9_Witness ==
    Rendered /\ shown_curve.x[1] = Km(bounds_lo) /\ shown_curve.y[1] < result_now.fun

\* C9 as stated: no sample lies below the optimum distance.
C9_NoSampleBelowOptimum ==
    Rendered =>
        LET fun == result_now.fun
            ys == shown_curve.y
        IN  \A i \in 1..linspace_num : ys[i] >= fun

\* The tolerance in units of the fourth decimal.
DisplayTol == FunTol \div (F \div 10^4)

SameCoordinates ==
    /\ float(input_A_x') = float(input_A_x) /\ float(input_A_y') = float(input_A_y)
    /\ float(input_B_x') = float(input_B_x) /\ float(input_B_y') = float(input_B_y)

(***************************************************************************)
(* C10.  The displayed optimum distance exceeds the displayed current      *)
(* distance by at most the tolerance, and a call that changes no           *)
(* coordinate leaves the optimum position, its label and the optimum       *)
(* distance as they were.                                                  *)
(***************************************************************************)
C10_OptimumAndSlider ==
    /\ [](Rendered => shown_optimum <= shown_current + DisplayTol)
    /\ [][(Rendered /\ Rendered' /\ SameCoordinates) =>
              /\ shown_optimum_x' = shown_optimum_x
              /\ shown_optimum_label' = shown_optimum_label
              /\ shown_optimum' = shown_optimum]_vars

\* The bridge at a bound the minimizer lies beyond.
C10_Witness ==
    Rendered /\ bridge_slider = Km(bounds_lo) /\ shown_optimum > shown_current

\* C10 as stated: the displayed optimum is never above the displayed current
\* distance.
C10_OptimumNeverAbove == Rendered => shown_optimum <= shown_current

====
